---------------------------- MODULE Spec2Model ----------------------------
(***************************************************************************)
(* Model of the WealthOS backend: budget.py (compute_budget and its        *)
(* helpers), blueprint.py (generate_blueprint) and main.py (the FastAPI    *)
(* module and its /budget route).                                          *)
(*                                                                         *)
(* Numbers.  The program computes on Python floats and rounds money with   *)
(* round(x, 2).  Here every amount is an integer number of mills           *)
(* (1/1000 of a currency unit), so a value the program has rounded to two  *)
(* decimals is a multiple of 10, and an input may carry a third decimal.   *)
(* A percentage is an integer number of hundredths (0.50 is 50).           *)
(* round(x, 2) is Round2: to the nearest cent.  Exactly half-way between   *)
(* two cents the program's result depends on the binary representation    *)
(* error of the operand (round(0.005, 2) = 0.01, round(0.015, 2) = 0.01),  *)
(* which a decimal model does not carry: the variable halfUp, chosen       *)
(* freely per run, is the set of cents k for which k and a half cents      *)
(* rounds up to k + 1 cents.  Sums, products and comparisons are exact     *)
(* decimal arithmetic: the last-bit error of a float sum is not modelled.  *)
(***************************************************************************)
EXTENDS Integers, Sequences, FiniteSets

VARIABLES
    mode,       \* which entry point this run exercises: "budget", "blueprint", "http"
    pc,         \* "call": inputs fixed, not yet run; "done": result produced
    halfUp,     \* the cents k at which round() takes k.5 cents up
    req,        \* the BudgetRequest (for "http": the JSON body, not yet validated)
    report,     \* compute_budget's return value
    profile,    \* generate_blueprint's profile argument
    parsed_docs, \* generate_blueprint's parsed_docs argument
    monthlyBudget, \* generate_blueprint's return value
    app,        \* main.py as a module: "starting", "serving", "import_error"
    response    \* what the client of POST /budget gets

vars == <<mode, pc, halfUp, req, report, profile, parsed_docs, monthlyBudget, app, response>>

---------------------------------------------------------------------------
(* Bounds of the explored inputs (mills unless said otherwise).            *)
MaxIncome == 16
MaxAmount == 6
MaxAllocCents == 3
MaxGoal == 12
MaxItems == 6
MaxDelta == 4
MaxBlueprintIncome == 40
MaxTie == 2

(* Program constants.                                                      *)
TopN == 5
MinNameLen == 1
MaxNameLen == 80
DefaultNeedsPct == 50
DefaultWantsPct == 30
DefaultSavingsPct == 20
DefaultGoal == 0
WeeksPerMonth == 433
BlueprintFixedPct == 50
BlueprintVariablePct == 25
BlueprintSavingsPct == 20

---------------------------------------------------------------------------
(* Arithmetic helpers.                                                     *)
Min(a, b) == IF a <= b THEN a ELSE b
Max(a, b) == IF a >= b THEN a ELSE b
Abs(a) == IF a < 0 THEN -a ELSE a

(* n / d rounded to the nearest integer, d > 0; at an exact half the       *)
(* magnitude goes up or down as halfUp says (halfUp is read modulo         *)
(* MaxTie + 1 for the magnitudes above MaxTie).                            *)
RoundDiv(n, d) ==
    LET m == Abs(n)
        q == m \div d
        r == m % d
        k == IF 2 * r < d THEN q
             ELSE IF 2 * r > d THEN q + 1
             ELSE IF (q % (MaxTie + 1)) \in halfUp THEN q + 1 ELSE q
    IN  IF n < 0 THEN -k ELSE k

(* round(x, 2) of an amount in mills.                                      *)
Round2(x) == 10 * RoundDiv(x, 10)

(* round(amount * pct, 2): mills times hundredths.                         *)
RoundPct(amount, pct) == 10 * RoundDiv(amount * pct, 1000)

---------------------------------------------------------------------------
(* budget.py                                                               *)

RECURSIVE SumAmounts(_)
SumAmounts(items) ==
    IF items = <<>> THEN 0
    ELSE Head(items).amount + SumAmounts(Tail(items))

sum_items(items) == Round2(SumAmounts(items))

(* sorted(items, key=amount, reverse=True): stable, so items of equal      *)
(* amount keep their order.  InsertDesc puts x after every element whose   *)
(* amount is >= x's.                                                       *)
RECURSIVE InsertDesc(_, _)
InsertDesc(x, s) ==
    IF s = <<>> THEN <<x>>
    ELSE IF Head(s).amount >= x.amount THEN <<Head(s)>> \o InsertDesc(x, Tail(s))
    ELSE <<x>> \o s

RECURSIVE SortedDescFrom(_, _)
SortedDescFrom(items, acc) ==
    IF items = <<>> THEN acc
    ELSE SortedDescFrom(Tail(items), InsertDesc(Head(items), acc))

(* A faulty variant: the descending order got by reversing a stable        *)
(* ascending sort, which puts equal items in reverse request order.        *)
RECURSIVE InsertDescBeforeEqual(_, _)
InsertDescBeforeEqual(x, s) ==
    IF s = <<>> THEN <<x>>
    ELSE IF Head(s).amount > x.amount
         THEN <<Head(s)>> \o InsertDescBeforeEqual(x, Tail(s))
    ELSE <<x>> \o s

RECURSIVE SortedDescUnstableFrom(_, _)
SortedDescUnstableFrom(items, acc) ==
    IF items = <<>> THEN acc
    ELSE SortedDescUnstableFrom(Tail(items), InsertDescBeforeEqual(Head(items), acc))

SortedDescUnstable(items) == SortedDescUnstableFrom(items, <<>>)

SortedDesc(items) == SortedDescFrom(items, <<>>)

top_items(items, n) ==
    LET sorted_items == SortedDesc(items)
        k == Min(n, Len(sorted_items))
    IN  [j \in 1..k |-> [name |-> sorted_items[j].name,
                         amount |-> Round2(sorted_items[j].amount)]]

(* A faulty variant: min for max.                                          *)
SavingsActualWrong(net_cash_flow) == Min(0, net_cash_flow)

SavingsActual(net_cash_flow) == Max(0, net_cash_flow)

WarningRecs(r) ==
    IF r.target_needs_pct + r.target_wants_pct + r.target_savings_pct # 100
    THEN <<[type |-> "warning"]>>
    ELSE <<>>

NeedsRecs(needs_actual, needs_target) ==
    IF needs_actual > needs_target
    THEN <<[type |-> "needs_over_target",
            over |-> Round2(needs_actual - needs_target)]>>
    ELSE <<>>

WantsRecs(r, wants_actual, wants_target) ==
    IF wants_actual > wants_target
    THEN <<[type |-> "wants_over_target",
            over |-> Round2(wants_actual - wants_target),
            top_variable_items |-> top_items(r.variable_expenses, TopN)]>>
    ELSE <<>>

(* A faulty variant: four weeks to the month.                              *)
WeeklyCutByFour(deficit) == 10 * RoundDiv(deficit * 10, 400)

(* round(deficit / 4.33, 2)                                                *)
WeeklyCut(deficit) == 10 * RoundDiv(deficit * 10, WeeksPerMonth)

(* A faulty variant: a zero cash flow counted as a deficit.                *)
CashFlowRecsOffByOne(net_cash_flow) ==
    IF net_cash_flow <= 0
    THEN <<[type |-> "deficit", short |-> Round2(Abs(net_cash_flow)),
            needed_cut_per_week |-> WeeklyCut(Abs(net_cash_flow))]>>
    ELSE <<[type |-> "surplus", left |-> net_cash_flow]>>

CashFlowRecs(net_cash_flow) ==
    IF net_cash_flow < 0
    THEN <<[type |-> "deficit", short |-> Round2(Abs(net_cash_flow)),
            needed_cut_per_week |-> WeeklyCut(Abs(net_cash_flow))]>>
    ELSE <<[type |-> "surplus", left |-> net_cash_flow]>>

(* A faulty variant: the cash-flow record appended first.                  *)
RecommendationsCashFirst(r, needs_actual, needs_target, wants_actual, wants_target, net_cash_flow) ==
    CashFlowRecs(net_cash_flow)
        \o WarningRecs(r)
        \o NeedsRecs(needs_actual, needs_target)
        \o WantsRecs(r, wants_actual, wants_target)

Recommendations(r, needs_actual, needs_target, wants_actual, wants_target, net_cash_flow) ==
    WarningRecs(r)
        \o NeedsRecs(needs_actual, needs_target)
        \o WantsRecs(r, wants_actual, wants_target)
        \o CashFlowRecs(net_cash_flow)

ZeroPlan == [emergency |-> 0, debt_extra |-> 0, investing |-> 0, remaining_buffer |-> 0]

(* Faulty variants: debt before the emergency fund; goals not capped at    *)
(* what remains.                                                           *)
AllocationPlanDebtFirst(r, net_cash_flow) ==
    IF net_cash_flow > 0
    THEN LET debt == Min(r.debt_extra_payment_goal, net_cash_flow)
             remaining1 == Round2(net_cash_flow - debt)
             em == Min(r.emergency_fund_goal, remaining1)
             remaining2 == Round2(remaining1 - em)
             inv == Min(r.investing_goal, remaining2)
             remaining3 == Round2(remaining2 - inv)
         IN  [emergency |-> Round2(em), debt_extra |-> Round2(debt),
              investing |-> Round2(inv), remaining_buffer |-> Round2(remaining3)]
    ELSE ZeroPlan

AllocationPlanUncapped(r, net_cash_flow) ==
    IF net_cash_flow > 0
    THEN LET em == r.emergency_fund_goal
             remaining1 == Round2(net_cash_flow - em)
             debt == r.debt_extra_payment_goal
             remaining2 == Round2(remaining1 - debt)
             inv == r.investing_goal
             remaining3 == Round2(remaining2 - inv)
         IN  [emergency |-> Round2(em), debt_extra |-> Round2(debt),
              investing |-> Round2(inv), remaining_buffer |-> Round2(remaining3)]
    ELSE ZeroPlan

AllocationPlan(r, net_cash_flow) ==
    IF net_cash_flow > 0
    THEN LET em == Min(r.emergency_fund_goal, net_cash_flow)
             remaining1 == Round2(net_cash_flow - em)
             debt == Min(r.debt_extra_payment_goal, remaining1)
             remaining2 == Round2(remaining1 - debt)
             inv == Min(r.investing_goal, remaining2)
             remaining3 == Round2(remaining2 - inv)
         IN  [emergency |-> Round2(em), debt_extra |-> Round2(debt),
              investing |-> Round2(inv), remaining_buffer |-> Round2(remaining3)]
    ELSE ZeroPlan

compute_budget(r) ==
    LET income == Round2(r.monthly_after_tax_income)
        fixed_total == sum_items(r.fixed_expenses)
        variable_total == sum_items(r.variable_expenses)
        total_spend == Round2(fixed_total + variable_total)
        net_cash_flow == Round2(income - total_spend)
        needs_target == RoundPct(income, r.target_needs_pct)
        wants_target == RoundPct(income, r.target_wants_pct)
        savings_target == RoundPct(income, r.target_savings_pct)
        needs_actual == fixed_total
        wants_actual == variable_total
        savings_actual == SavingsActual(net_cash_flow)
    IN  [income |-> income,
         totals |-> [fixed_total |-> fixed_total,
                     variable_total |-> variable_total,
                     total_spend |-> total_spend],
         net_cash_flow |-> net_cash_flow,
         targets |-> [needs_target |-> needs_target,
                      wants_target |-> wants_target,
                      savings_target |-> savings_target,
                      target_pcts |-> [needs |-> r.target_needs_pct,
                                       wants |-> r.target_wants_pct,
                                       savings |-> r.target_savings_pct]],
         actuals |-> [needs_actual |-> Round2(needs_actual),
                      wants_actual |-> Round2(wants_actual),
                      savings_actual |-> Round2(savings_actual)],
         allocation_plan |-> AllocationPlan(r, net_cash_flow),
         recommendations |-> Recommendations(r, needs_actual, needs_target,
                                             wants_actual, wants_target,
                                             net_cash_flow),
         disclaimer |-> "Educational output only; not financial, tax, or legal advice."]

(* The Field constraints of BudgetLineItem and BudgetRequest.              *)
ValidItem(i) ==
    /\ Len(i.name) >= MinNameLen
    /\ Len(i.name) <= MaxNameLen
    /\ i.amount >= 0

ValidPct(p) == p >= 0 /\ p <= 100

ValidRequest(r) ==
    /\ r.monthly_after_tax_income >= 0
    /\ \A j \in 1..Len(r.fixed_expenses) : ValidItem(r.fixed_expenses[j])
    /\ \A j \in 1..Len(r.variable_expenses) : ValidItem(r.variable_expenses[j])
    /\ ValidPct(r.target_needs_pct)
    /\ ValidPct(r.target_wants_pct)
    /\ ValidPct(r.target_savings_pct)
    /\ r.emergency_fund_goal >= 0
    /\ r.debt_extra_payment_goal >= 0
    /\ r.investing_goal >= 0

---------------------------------------------------------------------------
(* blueprint.py                                                            *)

(* float(profile.get("monthlyIncome", 0) or 0)                             *)
ProfileIncome(p) == IF p.has THEN p.monthlyIncome ELSE 0

(* A faulty variant: 30% for the variable share.                           *)
generate_blueprint_variable_30(p, docs) ==
    LET income == ProfileIncome(p)
        fixed == RoundPct(income, BlueprintFixedPct)
        variable == RoundPct(income, 30)
        savings_target == RoundPct(income, BlueprintSavingsPct)
        net_cash_flow == Round2(income - fixed - variable - savings_target)
    IN  [income |-> income, fixed |-> fixed, variable |-> variable,
         savingsTarget |-> savings_target, netCashFlow |-> net_cash_flow]

generate_blueprint(p, docs) ==
    LET income == ProfileIncome(p)
        fixed == RoundPct(income, BlueprintFixedPct)
        variable == RoundPct(income, BlueprintVariablePct)
        savings_target == RoundPct(income, BlueprintSavingsPct)
        net_cash_flow == Round2(income - fixed - variable - savings_target)
    IN  [income |-> income, fixed |-> fixed, variable |-> variable,
         savingsTarget |-> savings_target, netCashFlow |-> net_cash_flow]

---------------------------------------------------------------------------
(* main.py                                                                 *)

(* The names main.py binds before it defines the /budget route: its        *)
(* imports (lines 1-7), app, BlueprintRequest and the three routes above.  *)
MainNames ==
    {"FastAPI", "UploadFile", "File", "Form", "CORSMiddleware", "BaseModel",
     "Any", "Dict", "List", "ocr_and_extract", "generate_blueprint",
     "app", "BlueprintRequest", "health", "upload", "blueprint"}

(* def budget(req: BudgetRequest) evaluates its annotation when the module *)
(* is loaded; its body looks compute_budget up when it is called.          *)
BudgetRouteAnnotation == "BudgetRequest"
BudgetRouteCallee == "compute_budget"

BudgetResponse(state, body) ==
    IF state = "import_error" THEN [status |-> "unavailable"]
    ELSE IF ~ValidRequest(body) THEN [status |-> "422"]
    ELSE IF BudgetRouteCallee \notin MainNames THEN [status |-> "500"]
    ELSE [status |-> "200", body |-> compute_budget(body)]

---------------------------------------------------------------------------
(* Inputs.                                                                 *)

Item(name, amount) == [name |-> name, amount |-> amount]

Request(inc, fx, vr, pn, pw, ps, eg, dg, ig) ==
    [monthly_after_tax_income |-> inc,
     fixed_expenses |-> fx,
     variable_expenses |-> vr,
     target_needs_pct |-> pn,
     target_wants_pct |-> pw,
     target_savings_pct |-> ps,
     emergency_fund_goal |-> eg,
     debt_extra_payment_goal |-> dg,
     investing_goal |-> ig]

(* A request that leaves the optional fields to their defaults.            *)
DefaultRequest(inc, fx, vr) ==
    Request(inc, fx, vr, DefaultNeedsPct, DefaultWantsPct, DefaultSavingsPct,
            DefaultGoal, DefaultGoal, DefaultGoal)

ListsUpTo(S, n) == UNION {[1..k -> S] : k \in 0..n}

PctGrid == {0, 20, 30, 50}
GoalGrid == {0, 4, 10}

LongName ==
    "123456789012345678901234567890123456789012345678901234567890123456789012345678901"

ItemNames == <<"item1", "item2", "item3", "item4", "item5", "item6", "item7", "item8">>
TopAmounts == {0, 4, 6, 10}

ExampleRequest ==
    DefaultRequest(2000000, <<Item("rent", 1800000)>>, <<Item("misc", 500000)>>)

ExampleProfile == [has |-> TRUE, monthlyIncome |-> 4000000]

NoReport == [status |-> "none"]

Idle ==
    /\ profile = [has |-> FALSE, monthlyIncome |-> 0]
    /\ parsed_docs = <<>>
    /\ monthlyBudget = NoReport
    /\ app = "starting"
    /\ response = NoReport

BudgetCall(r) ==
    /\ mode = "budget"
    /\ pc = "call"
    /\ halfUp \in SUBSET (0..MaxTie)
    /\ req = r
    /\ ValidRequest(r)
    /\ report = NoReport
    /\ Idle

(* Incomes, one-item expense lists and target percentages; no goals.       *)
InitGeneral ==
    \E inc \in 0..MaxIncome :
    \E fx \in ListsUpTo({Item("rent", a) : a \in 0..MaxAmount}, 1) :
    \E vr \in ListsUpTo({Item("misc", a) : a \in 0..MaxAmount}, 1) :
    \E pn \in PctGrid, pw \in PctGrid, ps \in PctGrid :
        BudgetCall(Request(inc, fx, vr, pn, pw, ps, DefaultGoal, DefaultGoal, DefaultGoal))

(* No expenses at all: incomes, target percentages and goals.              *)
InitNoExpenses ==
    \E inc \in 0..MaxIncome :
    \E pn \in PctGrid, pw \in PctGrid, ps \in PctGrid :
    \E eg \in GoalGrid, dg \in GoalGrid, ig \in GoalGrid :
        BudgetCall(Request(inc, <<>>, <<>>, pn, pw, ps, eg, dg, ig))

(* Whole-cent income and expenses, goals with a third decimal.             *)
InitAlloc ==
    \E c \in 0..MaxAllocCents :
    \E fx \in {<<>>} \cup {<<Item("rent", 10 * a)>> : a \in 1..(MaxAllocCents - 1)} :
    \E eg \in 0..MaxGoal, dg \in 0..MaxGoal, ig \in 0..MaxGoal :
        BudgetCall(Request(10 * c, fx, <<>>, DefaultNeedsPct, DefaultWantsPct,
                           DefaultSavingsPct, eg, dg, ig))

(* Variable-expense lists of up to MaxItems items, each with its own name. *)
InitTop ==
    \E inc \in {0, 10} :
    \E k \in 0..MaxItems :
    \E am \in [1..k -> TopAmounts] :
        BudgetCall(DefaultRequest(inc, <<>>, [j \in 1..k |-> Item(ItemNames[j], am[j])]))

(* The documented example and its neighbours, whole cents.                 *)
InitExample ==
    \E i \in 0..MaxDelta, j \in 0..MaxDelta, k \in 0..MaxDelta :
        BudgetCall(DefaultRequest(
            ExampleRequest.monthly_after_tax_income + 10 * i,
            <<Item("rent", ExampleRequest.fixed_expenses[1].amount + 10 * j)>>,
            <<Item("misc", ExampleRequest.variable_expenses[1].amount + 10 * k)>>))

InitBlueprint ==
    /\ mode = "blueprint"
    /\ pc = "call"
    /\ halfUp \in SUBSET (0..MaxTie)
    /\ profile \in {[has |-> FALSE, monthlyIncome |-> 0], ExampleProfile}
                   \cup {[has |-> TRUE, monthlyIncome |-> x] :
                            x \in 0..MaxBlueprintIncome}
    /\ parsed_docs \in {<<>>, <<[docType |-> "paystub"]>>}
    /\ monthlyBudget = NoReport
    /\ req = DefaultRequest(0, <<>>, <<>>)
    /\ report = NoReport
    /\ app = "starting"
    /\ response = NoReport

(* JSON bodies for POST /budget, valid and invalid in each validated way.  *)
InitHttp ==
    /\ mode = "http"
    /\ pc = "call"
    /\ halfUp \in SUBSET (0..MaxTie)
    /\ \E inc \in {-10, 0, 20000} :
       \E fx \in {<<>>, <<Item("rent", 10000)>>, <<Item("rent", -10)>>,
                  <<Item("", 10)>>, <<Item(LongName, 10)>>} :
       \E pn \in {-1, DefaultNeedsPct, 101} :
       \E eg \in {-10, DefaultGoal} :
            req = Request(inc, fx, <<>>, pn, DefaultWantsPct, DefaultSavingsPct,
                          eg, DefaultGoal, DefaultGoal)
    /\ report = NoReport
    /\ profile = [has |-> FALSE, monthlyIncome |-> 0]
    /\ parsed_docs = <<>>
    /\ monthlyBudget = NoReport
    /\ app = "starting"
    /\ response = NoReport

---------------------------------------------------------------------------
(* Operations.                                                             *)

(* A call of compute_budget(req).                                          *)
ComputeBudget ==
    /\ mode = "budget"
    /\ pc = "call"
    /\ report' = compute_budget(req)
    /\ pc' = "done"
    /\ UNCHANGED <<mode, halfUp, req, profile, parsed_docs, monthlyBudget, app, response>>

(* A call of generate_blueprint(profile, parsed_docs).                     *)
GenerateBlueprint ==
    /\ mode = "blueprint"
    /\ pc = "call"
    /\ monthlyBudget' = generate_blueprint(profile, parsed_docs)
    /\ pc' = "done"
    /\ UNCHANGED <<mode, halfUp, req, report, profile, parsed_docs, app, response>>

(* The server imports main.py: the module body runs top to bottom.         *)
LoadMain ==
    /\ mode = "http"
    /\ app = "starting"
    /\ app' = IF BudgetRouteAnnotation \in MainNames THEN "serving" ELSE "import_error"
    /\ UNCHANGED <<mode, pc, halfUp, req, report, profile, parsed_docs, monthlyBudget, response>>

(* A client posts req to /budget.                                          *)
PostBudget ==
    /\ mode = "http"
    /\ app # "starting"
    /\ pc = "call"
    /\ response' = BudgetResponse(app, req)
    /\ pc' = "done"
    /\ UNCHANGED <<mode, halfUp, req, report, profile, parsed_docs, monthlyBudget, app>>

Next == ComputeBudget \/ GenerateBlueprint \/ LoadMain \/ PostBudget

InitOther == InitBlueprint \/ InitHttp

Init == InitGeneral \/ InitNoExpenses \/ InitOther
Spec == Init /\ [][Next]_vars

InitAllocation == InitAlloc \/ InitOther
SpecAlloc == InitAllocation /\ [][Next]_vars

InitTopItems == InitTop \/ InitOther
SpecTop == InitTopItems /\ [][Next]_vars

InitExamples == InitExample \/ InitOther
SpecExample == InitExamples /\ [][Next]_vars

---------------------------------------------------------------------------
(* Properties.                                                             *)

BudgetDone == mode = "budget" /\ pc = "done"
BlueprintDone == mode = "blueprint" /\ pc = "done"
HttpDone == mode = "http" /\ pc = "done"

Types(recs) == [j \in 1..Len(recs) |-> recs[j].type]
Count(recs, t) == Cardinality({j \in 1..Len(recs) : recs[j].type = t})
PlanSum(p) == p.emergency + p.debt_extra + p.investing + p.remaining_buffer

(* C1: the recommendations hold exactly one record of type deficit or      *)
(* surplus: a deficit record when net_cash_flow < 0, a surplus record when *)
(* net_cash_flow >= 0.                                                     *)
C1_ExactlyOneCashFlowRecord ==
    BudgetDone =>
        LET recs == report.recommendations
            ncf == report.net_cash_flow
        IN  /\ Count(recs, "deficit") + Count(recs, "surplus") = 1
            /\ ncf < 0 => Count(recs, "deficit") = 1
            /\ ncf >= 0 => Count(recs, "surplus") = 1

C1_Witness ==
    /\ BudgetDone
    /\ report.net_cash_flow < 0
    /\ Count(report.recommendations, "deficit") = 1

(* C2: the four fields of the allocation plan add up to net_cash_flow when *)
(* net_cash_flow > 0, and are all 0 when net_cash_flow <= 0.               *)
C2_PlanSumsToCashFlow ==
    BudgetDone =>
        /\ report.net_cash_flow > 0
              => PlanSum(report.allocation_plan) = report.net_cash_flow
        /\ report.net_cash_flow <= 0 => report.allocation_plan = ZeroPlan

(* C3 as stated: each bucket is the unrounded minimum of its goal and what *)
(* the reported buckets before it leave of net_cash_flow.                  *)
C3_UnroundedMinima ==
    (BudgetDone /\ report.net_cash_flow > 0) =>
        LET ncf == report.net_cash_flow
            p == report.allocation_plan
        IN  /\ p.emergency = Min(req.emergency_fund_goal, ncf)
            /\ p.debt_extra = Min(req.debt_extra_payment_goal, ncf - p.emergency)
            /\ p.investing = Min(req.investing_goal, ncf - p.emergency - p.debt_extra)
            /\ p.remaining_buffer = ncf - p.emergency - p.debt_extra - p.investing

(* C3 amended: priority order emergency, debt_extra, investing; each       *)
(* bucket is min(goal, remaining) rounded to 2 decimals, and remaining is  *)
(* reduced by the unrounded bucket and rounded to 2 decimals after each    *)
(* step; remaining_buffer is the last remaining.                           *)
C3_RoundedAtEachStep ==
    (BudgetDone /\ report.net_cash_flow > 0) =>
        LET ncf == report.net_cash_flow
            p == report.allocation_plan
            e == Min(req.emergency_fund_goal, ncf)
            r1 == Round2(ncf - e)
            d == Min(req.debt_extra_payment_goal, r1)
            r2 == Round2(r1 - d)
            i == Min(req.investing_goal, r2)
            r3 == Round2(r2 - i)
        IN  /\ p.emergency = Round2(e)
            /\ p.debt_extra = Round2(d)
            /\ p.investing = Round2(i)
            /\ p.remaining_buffer = r3

C3_Witness ==
    /\ BudgetDone
    /\ report.net_cash_flow > 0
    /\ req.emergency_fund_goal % 10 # 0
    /\ report.allocation_plan.emergency > 0
    /\ report.allocation_plan.debt_extra > 0
    /\ report.allocation_plan.investing > 0

(* The position of item i in the stable descending order of items: one     *)
(* more than the number of items that are larger, or equal and earlier.    *)
Rank(items, i) ==
    1 + Cardinality({k \in 1..Len(items) :
                        \/ items[k].amount > items[i].amount
                        \/ items[k].amount = items[i].amount /\ k < i})

(* C4: a wants_over_target record's top_variable_items has length          *)
(* min(5, number of variable expenses) and lists the items of largest      *)
(* amount in descending order of amount, equal amounts in request order.   *)
C4_TopVariableItems ==
    BudgetDone =>
        \A n \in 1..Len(report.recommendations) :
            report.recommendations[n].type = "wants_over_target" =>
                LET items == req.variable_expenses
                    top == report.recommendations[n].top_variable_items
                IN  /\ Len(top) = Min(5, Len(items))
                    /\ \A j \in 1..Len(top) :
                          \E i \in 1..Len(items) :
                              /\ Rank(items, i) = j
                              /\ top[j].name = items[i].name
                              /\ top[j].amount = Round2(items[i].amount)

C4_Witness ==
    /\ BudgetDone
    /\ Len(req.variable_expenses) = 6
    /\ req.variable_expenses[2].amount = req.variable_expenses[5].amount
    /\ req.variable_expenses[2].amount > req.variable_expenses[1].amount
    /\ \E n \in 1..Len(report.recommendations) :
          /\ report.recommendations[n].type = "wants_over_target"
          /\ Len(report.recommendations[n].top_variable_items) = 5

(* C5: POST /budget answers an invalid body with a validation error and a  *)
(* valid body with compute_budget's report.                                *)
C5_ValidatedThenComputed ==
    HttpDone =>
        IF ValidRequest(req)
        THEN response = [status |-> "200", body |-> compute_budget(req)]
        ELSE response = [status |-> "422"]

C7_ExampleWeeklyCut6929 ==
    (BudgetDone /\ req = ExampleRequest) =>
        LET recs == report.recommendations
        IN  /\ report.totals.total_spend = 2300000
            /\ report.net_cash_flow = -300000
            /\ recs[Len(recs)].type = "deficit"
            /\ recs[Len(recs)].needed_cut_per_week = 69290

(* C7 amended: for income 2000, rent 1800, misc 500 and default targets,   *)
(* total_spend is 2300, net_cash_flow is -300 and the deficit record's     *)
(* needed_cut_per_week, 300 / 4.33 rounded to 2 decimals, is 69.28.        *)
C7_ExampleWeeklyCut6928 ==
    (BudgetDone /\ req = ExampleRequest) =>
        LET recs == report.recommendations
        IN  /\ report.totals.total_spend = 2300000
            /\ report.net_cash_flow = -300000
            /\ recs[Len(recs)].type = "deficit"
            /\ recs[Len(recs)].needed_cut_per_week = 69280

C7_Witness == BudgetDone /\ req = ExampleRequest

NoExpenses == req.fixed_expenses = <<>> /\ req.variable_expenses = <<>>

(* C8 as stated: with no expenses net_cash_flow and savings_actual equal   *)
(* the income.                                                             *)
C8_NoExpensesIncomeUnrounded ==
    (BudgetDone /\ NoExpenses) =>
        /\ report.totals.total_spend = 0
        /\ report.net_cash_flow = req.monthly_after_tax_income
        /\ report.actuals.savings_actual = req.monthly_after_tax_income
        /\ Count(report.recommendations, "needs_over_target") = 0
        /\ Count(report.recommendations, "wants_over_target") = 0
        /\ Count(report.recommendations, "surplus") = 1

(* C8 amended: with no expenses total_spend is 0, net_cash_flow and        *)
(* savings_actual equal the income rounded to 2 decimals, there is no      *)
(* needs_over_target and no wants_over_target record, and there is a       *)
(* surplus record.                                                         *)
C8_NoExpensesIncomeRounded ==
    (BudgetDone /\ NoExpenses) =>
        /\ report.totals.total_spend = 0
        /\ report.net_cash_flow = Round2(req.monthly_after_tax_income)
        /\ report.actuals.savings_actual = Round2(req.monthly_after_tax_income)
        /\ Count(report.recommendations, "needs_over_target") = 0
        /\ Count(report.recommendations, "wants_over_target") = 0
        /\ Count(report.recommendations, "surplus") = 1

C8_Witness ==
    /\ BudgetDone
    /\ NoExpenses
    /\ req.monthly_after_tax_income = 16
    /\ req.investing_goal > 0
    /\ report.net_cash_flow = 20

BlueprintSplits(b, income) ==
    /\ b.fixed = RoundPct(income, 50)
    /\ b.variable = RoundPct(income, 25)
    /\ b.savingsTarget = RoundPct(income, 20)

BlueprintExample(b) ==
    profile = ExampleProfile =>
        /\ b.fixed = 2000000
        /\ b.variable = 1000000
        /\ b.savingsTarget = 800000
        /\ b.netCashFlow = 200000

(* C9 as stated: netCashFlow is income - fixed - variable - savingsTarget. *)
C9_BlueprintNetUnrounded ==
    BlueprintDone =>
        LET b == monthlyBudget
            income == ProfileIncome(profile)
        IN  /\ BlueprintSplits(b, income)
            /\ b.netCashFlow = income - b.fixed - b.variable - b.savingsTarget
            /\ BlueprintExample(b)

(* C9 amended: fixed, variable and savingsTarget are 50%, 25% and 20% of   *)
(* the income, each rounded to 2 decimals, and netCashFlow is              *)
(* income - fixed - variable - savingsTarget rounded to 2 decimals,        *)
(* whatever parsed_docs is; for income 4000 they are 2000, 1000, 800, 200. *)
C9_BlueprintNetRounded ==
    BlueprintDone =>
        LET b == monthlyBudget
            income == ProfileIncome(profile)
        IN  /\ BlueprintSplits(b, income)
            /\ b.netCashFlow = Round2(income - b.fixed - b.variable - b.savingsTarget)
            /\ BlueprintExample(b)

C9_Witness ==
    /\ BlueprintDone
    /\ profile = ExampleProfile
    /\ parsed_docs # <<>>
    /\ monthlyBudget.netCashFlow = 200000

PlanPriority(p, eg, dg, ig) ==
    /\ p.emergency >= 0 /\ p.emergency <= eg
    /\ p.debt_extra >= 0 /\ p.debt_extra <= dg
    /\ p.investing >= 0 /\ p.investing <= ig
    /\ p.remaining_buffer >= 0
    /\ p.debt_extra > 0 => p.emergency = eg
    /\ p.investing > 0 => (p.emergency = eg /\ p.debt_extra = dg)
    /\ p.remaining_buffer > 0
          => (p.emergency = eg /\ p.debt_extra = dg /\ p.investing = ig)

(* C10 as stated: the buckets are bounded by, and compared with, the goals *)
(* as given.                                                               *)
C10_BucketsWithinGoals ==
    BudgetDone =>
        PlanPriority(report.allocation_plan, req.emergency_fund_goal,
                     req.debt_extra_payment_goal, req.investing_goal)

(* C10 amended: each of emergency, debt_extra and investing is >= 0 and    *)
(* <= its goal rounded to 2 decimals, remaining_buffer is >= 0, and a      *)
(* lower-priority bucket is non-zero only if every higher-priority bucket  *)
(* equals its goal rounded to 2 decimals.                                  *)
C10_BucketsWithinRoundedGoals ==
    BudgetDone =>
        PlanPriority(report.allocation_plan, Round2(req.emergency_fund_goal),
                     Round2(req.debt_extra_payment_goal), Round2(req.investing_goal))

C10_Witness ==
    /\ BudgetDone
    /\ req.emergency_fund_goal = 6
    /\ req.debt_extra_payment_goal = 12
    /\ report.allocation_plan.emergency = 10
    /\ report.allocation_plan.debt_extra = 10
    /\ report.allocation_plan.investing = 0
    /\ report.allocation_plan.remaining_buffer = 10

=============================================================================
